---- MODULE Spec2Model ----
(***************************************************************************)
(* A model of custom_components/dynamic_timers/timer_manager.py: the       *)
(* TimerManager's collection of timers, its persisted snapshot, restart    *)
(* recovery, the periodic expiry check and the lifecycle calls.            *)
(*                                                                         *)
(* Coroutines are modelled at their await points.  A coroutine that has    *)
(* not reached an await that can suspend keeps the event loop (cpu); the   *)
(* awaits that can suspend are the Store's load/save and a service call    *)
(* made while dispatching actions.                                         *)
(***************************************************************************)
EXTENDS Integers, Sequences, FiniteSets, TLC

\* ------------------------------------------------------------------ bounds
Names == {"a", "b"}
MaxTime == 2
MaxDur == 2
MaxAdd == 2
MaxTicks == 2
MaxBoots == 1
MaxCalls == 2

\* ------------------------------------------------------------ const.py
STATE_ACTIVE == "active"
STATE_PAUSED == "paused"
RESTART_RESUME == "resume"
RESTART_SKIP == "skip"
RESTART_EXECUTE == "execute"
ACTION_EVENT == "event"
ACTION_SERVICE == "service"
CHECK_INTERVAL == 1

\* ------------------------------------------------------------ timestamps
\* A stored expiry is a string.  It is modelled by <<kind, t>>:
\*   "naive"  the isoformat() text of a datetime without UTC offset, at time t
\*   "alt"    another spelling fromisoformat accepts for the same naive time
\*            (date only, space separator, ...)
\*   "aware"  an ISO-8601 text carrying a UTC offset, denoting time t
\*   "bad"    a text fromisoformat rejects
\*   "none"   the key is absent (or the value is empty)
NoExpiry == <<"none", 0>>
BadExpiry == <<"bad", 0>>
NaiveAt(t) == <<"naive", t>>
AltAt(t) == <<"alt", t>>
AwareAt(t) == <<"aware", t>>

\* datetime.fromisoformat: ok = parsed, aware = has tzinfo, t = the instant
fromisoformat(s) ==
  [ok |-> s[1] \in {"naive", "alt", "aware"}, aware |-> s[1] = "aware", t |-> s[2]]

\* datetime.isoformat of a parsed value: the canonical spelling
isoformat(aware, t) == IF aware THEN AwareAt(t) ELSE NaiveAt(t)

\* Python truthiness of timer.get("expiry") / of the new_expiry argument
Truthy(s) == s[1] # "none"

\* remaining_duration: seconds, or the key is absent
NoRemaining == -1

Max(x, y) == IF x >= y THEN x ELSE y

\* ---------------------------------------------------------------- timers
Timer(st, ex, rem, acts, rb, gs) ==
  [state |-> st, expiry |-> ex, remaining |-> rem, actions |-> acts,
   restart |-> rb, groups |-> gs]

\* the name is not a key of the dict
NoTimer == Timer("absent", NoExpiry, NoRemaining, <<>>, RESTART_RESUME, {})

EmptyTimers == [n \in Names |-> NoTimer]
Present(ts) == {n \in Names : ts[n] # NoTimer}

\* ---------------------------------------------------------------- state
VARIABLES
  timers,      \* self._timers: name -> timer dict
  stored,      \* what the Store holds: [present, timers]
  now,         \* datetime.now()
  pc,          \* the manager: "new", "recover", "running"
  ready,       \* self._ready
  check_task,  \* self._check_task is set (the interval listener is registered)
  scan,        \* _handle_restart_behavior's loop: [todo, remove]
  ticks,       \* the _async_check_timers activations
  cpu,         \* 0, or the tick that runs and has not yet suspended
  fired,       \* observation: dispatches of the current instance of each name
  last,        \* observation: the most recent lifecycle call and its outcome
  life,        \* observation: the calls made on each name's current instance
  served,      \* observation: names whose expiry a completed tick started after
  boots,       \* observation: restarts so far
  snap,        \* observation: the collection at the last load and at the last restart
  gop          \* the group call in progress, and what it has done

vars == <<timers, stored, now, pc, ready, check_task, scan, ticks, cpu,
          fired, last, life, served, boots, snap, gop>>


\* ------------------------------------------------------- observations
\* last: the call, its outcome, the seconds it added to an expiry, whether it
\* saved and whether it sent the update notification; for a step of a tick or
\* of recovery that dispatched the actions of a timer, op is "none", name is
\* the timer and trail is what _execute_timer_actions did
NoCall == [op |-> "none", name |-> "", res |-> "", added |-> 0,
           saved |-> FALSE, notified |-> FALSE, trail |-> <<>>]
Call(op, n, res, added, saved, notified) ==
  [op |-> op, name |-> n, res |-> res, added |-> added,
   saved |-> saved, notified |-> notified, trail |-> <<>>]

\* life[n]: what was called on the instance of n now in the collection.
\*   "created"   only create: due = its expiry
\*   "paused"    create, then pause at t1
\*   "resumed"   create, pause at t1, then resume at t2
\*   "extended"  create, then extends by add_duration only: added in total
\*   "other"     anything else
NoLife == [stage |-> "none", due |-> 0, t1 |-> 0, t2 |-> 0, added |-> 0]
\* snap: the collection and the dispatch counts when the manager last loaded
\* (loaded, fired0) and when the previous process ended (left, fired_left)
NoSnap == [loaded |-> EmptyTimers, fired0 |-> [n \in Names |-> 0],
           left |-> EmptyTimers, fired_left |-> [n \in Names |-> 0]]

\* ------------------------------------------------------- the tick records
IdleTick ==
  [pc |-> "idle", todo |-> {}, held |-> [n \in Names |-> "live"],
   objs |-> EmptyTimers, expired |-> {}, invalid |-> {}, start |-> 0]
TickIds == 1..MaxTicks

\* ------------------------------------------------------- the group call
\* gop is the one group call in progress and, once it is over, what it did:
\*   pc       "idle", "run" (it holds the event loop), "saved" (suspended in a
\*            member's _async_save) or "done" (its loop is over)
\*   live     it iterates self._timers.items() itself (pause, resume, extend);
\*            cancel_group iterates a list of names made at its start
\*   todo     the names its iterator has still to yield
\*   size     len(self._timers) when the iterator was made
\*   members  the members of the group when the call started
\*   gone     the names deleted or replaced by others since the call started
\*   calls    how often the single-timer operation was invoked on each name
\*   res      "ok", or "raised" when an exception ended the call
IdleGroup ==
  [pc |-> "idle", op |-> "", group |-> "", live |-> FALSE, todo |-> {},
   size |-> 0, members |-> {}, gone |-> {}, calls |-> [n \in Names |-> 0],
   res |-> "", add |-> <<"none", 0>>, nexp |-> <<"none", 0>>]
\* the value of cpu while the group call runs
GroupCpu == MaxTicks + 1

\* group in timer.get("groups", [])
GroupMember(r, group) == r # NoTimer /\ group \in r.groups

\* another coroutine deletes name n, or stores a new dict under it, while the
\* group call is in progress: a deleted key leaves the iteration, a new key
\* is appended to it
GroupOnDelete(g, n) ==
  IF g.pc \in {"run", "saved"} /\ timers[n] # NoTimer
    THEN [g EXCEPT !.todo = IF g.live THEN @ \ {n} ELSE @, !.gone = @ \cup {n}]
    ELSE g

GroupOnCreate(g, n) ==
  IF g.pc \in {"run", "saved"}
    THEN [g EXCEPT !.todo = IF g.live /\ timers[n] = NoTimer THEN @ \cup {n} ELSE @,
                   !.gone = @ \cup {n}]
    ELSE g

\* ------------------------------------------------------- action dispatch
\* _execute_timer_actions awaits hass.services.async_call for a service action:
\* the only await of a dispatch that can suspend the caller (bus.async_fire is
\* a plain call).
DispatchSuspends(acts) == \E i \in DOMAIN acts : acts[i] = ACTION_SERVICE

\* An action dict is modelled by its kind:
\*   ACTION_EVENT      an event action: bus.async_fire
\*   ACTION_SERVICE    a service action "domain.service": services.async_call
\*   "service_nodot"   a service action whose identifier has no "."
\*   "service_unnamed" a service action without "action" and "service"
\*   "service_failing" a service action whose async_call raises
\*   "unknown_type"    an action_type that is neither event nor service
\*   "untyped"         no action_type, "event", "action" or "service" key
\*   "not_a_dict"      a list item that has no .get (AttributeError)
ActionKinds ==
  {ACTION_EVENT, ACTION_SERVICE, "service_nodot", "service_unnamed",
   "service_failing", "unknown_type", "untyped", "not_a_dict"}

\* one pass of the loop body of _execute_timer_actions: "fired", "called",
\* "skipped" (logged and left) or "failed" (an exception, caught and logged)
ExecuteAction(action) ==
  CASE action = ACTION_EVENT -> "fired"
    [] action = ACTION_SERVICE -> "called"
    [] action \in {"service_nodot", "service_unnamed", "unknown_type", "untyped"}
         -> "skipped"
    [] OTHER -> "failed"

\* the loop that an exception in one action ends
RECURSIVE execute_timer_actionsStopsAtFailure(_)
execute_timer_actionsStopsAtFailure(actions) ==
  IF actions = <<>> THEN <<>>
  ELSE IF ExecuteAction(Head(actions)) = "failed"
    THEN <<<<Head(actions), "failed">>>>
    ELSE <<<<Head(actions), ExecuteAction(Head(actions))>>>>
           \o execute_timer_actionsStopsAtFailure(Tail(actions))

\* _execute_timer_actions: what was attempted, in order, as <<action, outcome>>
RECURSIVE execute_timer_actions(_)
execute_timer_actions(actions) ==
  IF actions = <<>> THEN <<>>
  ELSE <<<<Head(actions), ExecuteAction(Head(actions))>>>>
         \o execute_timer_actions(Tail(actions))

Dispatched(n, actions) ==
  [NoCall EXCEPT !.name = n, !.trail = execute_timer_actions(actions)]

\* ------------------------------------------------------- restart recovery
\* One iteration of _handle_restart_behavior's loop on timer r at time t:
\* whether its actions are dispatched and whether it is marked for removal.
\* the branch on restart_behavior, given is_expired
PolicyOutcomeExecuteKeeps(restart_behavior, is_expired) ==
  CASE restart_behavior = RESTART_RESUME ->
         [dispatch |-> is_expired, remove |-> is_expired]
    [] restart_behavior = RESTART_EXECUTE -> [dispatch |-> TRUE, remove |-> FALSE]
    [] restart_behavior = RESTART_SKIP -> [dispatch |-> FALSE, remove |-> is_expired]
    [] OTHER -> [dispatch |-> FALSE, remove |-> FALSE]

PolicyOutcomeSkipPurgesAll(restart_behavior, is_expired) ==
  CASE restart_behavior = RESTART_RESUME ->
         [dispatch |-> is_expired, remove |-> is_expired]
    [] restart_behavior = RESTART_EXECUTE -> [dispatch |-> TRUE, remove |-> TRUE]
    [] restart_behavior = RESTART_SKIP -> [dispatch |-> FALSE, remove |-> TRUE]
    [] OTHER -> [dispatch |-> FALSE, remove |-> FALSE]

PolicyOutcome(restart_behavior, is_expired) ==
  CASE restart_behavior = RESTART_RESUME ->
         [dispatch |-> is_expired, remove |-> is_expired]
    [] restart_behavior = RESTART_EXECUTE -> [dispatch |-> TRUE, remove |-> TRUE]
    [] restart_behavior = RESTART_SKIP -> [dispatch |-> FALSE, remove |-> is_expired]
    [] OTHER -> [dispatch |-> FALSE, remove |-> FALSE]

RestartOutcome(r, t) ==
  IF r.state = STATE_ACTIVE /\ Truthy(r.expiry)
    THEN LET p == fromisoformat(r.expiry) IN
         \* ValueError/TypeError of fromisoformat: marked for removal, continue
         IF ~p.ok THEN [dispatch |-> FALSE, remove |-> TRUE]
         \* expiry <= datetime.now() raises TypeError for an offset-aware
         \* expiry: the enclosing "except Exception" marks it for removal
         ELSE IF p.aware THEN [dispatch |-> FALSE, remove |-> TRUE]
         ELSE PolicyOutcome(r.restart, p.t <= t)
    ELSE IF r.state = STATE_PAUSED THEN [dispatch |-> FALSE, remove |-> FALSE]
    ELSE [dispatch |-> FALSE, remove |-> TRUE]

\* async_load that registers the check loop before it handles the snapshot
async_loadStartsLoopFirst ==
  /\ pc = "new"
  /\ IF stored.present
       THEN /\ timers' = stored.timers
            /\ pc' = "recover"
            /\ scan' = [todo |-> Present(stored.timers), remove |-> {}]
            /\ check_task' = TRUE
            /\ UNCHANGED ready
       ELSE /\ pc' = "running"
            /\ check_task' = TRUE
            /\ ready' = TRUE
            /\ UNCHANGED <<timers, scan>>
  /\ snap' = [snap EXCEPT !.loaded = IF stored.present THEN stored.timers
                                      ELSE EmptyTimers,
                           !.fired0 = fired]
  /\ last' = NoCall
  /\ UNCHANGED <<gop, stored, now, ticks, cpu, fired, life, served, boots>>

\* async_load up to the call of _handle_restart_behavior; with no snapshot
\* the check loop is registered and the manager is ready at once.
async_load ==
  /\ pc = "new"
  /\ IF stored.present
       THEN /\ timers' = stored.timers
            /\ pc' = "recover"
            /\ scan' = [todo |-> Present(stored.timers), remove |-> {}]
            /\ UNCHANGED <<ready, check_task>>
       ELSE /\ pc' = "running"
            /\ check_task' = TRUE
            /\ ready' = TRUE
            /\ UNCHANGED <<timers, scan>>
  /\ snap' = [snap EXCEPT !.loaded = IF stored.present THEN stored.timers
                                      ELSE EmptyTimers,
                           !.fired0 = fired]
  /\ last' = NoCall
  /\ UNCHANGED <<gop, stored, now, ticks, cpu, fired, life, served, boots>>

\* one iteration of the loop over list(self._timers.items())
RecoverTimerStopsAtBroken(n) ==
  /\ pc = "recover"
  /\ n \in scan.todo
  /\ LET out == RestartOutcome(timers[n], now)
         broken == out.remove /\ ~out.dispatch
     IN
       /\ fired' = IF out.dispatch THEN [fired EXCEPT ![n] = @ + 1] ELSE fired
       /\ last' = IF out.dispatch THEN Dispatched(n, timers[n].actions) ELSE NoCall
       /\ scan' = [todo |-> IF broken THEN {} ELSE scan.todo \ {n},
                   remove |-> IF out.remove THEN scan.remove \cup {n}
                              ELSE scan.remove]
  /\ UNCHANGED <<gop, timers, stored, now, pc, ready, check_task, ticks, cpu,
                 life, served, boots, snap>>

RecoverTimer(n) ==
  /\ pc = "recover"
  /\ n \in scan.todo
  /\ LET out == RestartOutcome(timers[n], now) IN
       /\ fired' = IF out.dispatch THEN [fired EXCEPT ![n] = @ + 1] ELSE fired
       /\ last' = IF out.dispatch THEN Dispatched(n, timers[n].actions) ELSE NoCall
       /\ scan' = [todo |-> scan.todo \ {n},
                   remove |-> IF out.remove THEN scan.remove \cup {n}
                              ELSE scan.remove]
  /\ UNCHANGED <<gop, timers, stored, now, pc, ready, check_task, ticks, cpu,
                 life, served, boots, snap>>

\* the removals and the save that end _handle_restart_behavior, then the rest
\* of async_load: the check loop is registered and the manager is ready
RecoverFinish ==
  /\ pc = "recover"
  /\ scan.todo = {}
  /\ timers' = [n \in Names |-> IF n \in scan.remove THEN NoTimer ELSE timers[n]]
  /\ stored' = IF scan.remove # {} THEN [present |-> TRUE, timers |-> timers']
               ELSE stored
  /\ scan' = [todo |-> {}, remove |-> {}]
  /\ pc' = "running"
  /\ check_task' = TRUE
  /\ ready' = TRUE
  \* the save is not followed by _notify_sensor_update
  /\ last' = Call("recover", "", "ok", 0, scan.remove # {}, FALSE)
  /\ UNCHANGED <<gop, now, ticks, cpu, fired, life, served, boots, snap>>

\* ------------------------------------------------------- async_stop
\* async_stop that leaves the interval listener registered
async_stopKeepsListener ==
  /\ pc = "running"
  /\ cpu = 0
  /\ stored' = [present |-> TRUE, timers |-> timers]
  /\ last' = Call("stop", "", IF check_task THEN "cancelled" ELSE "ok", 0,
                  TRUE, FALSE)
  /\ UNCHANGED <<timers, now, pc, ready, check_task, scan, ticks, cpu, fired,
                 life, served, boots, snap, gop>>

\* res is "cancelled" when the listener was registered and is removed, "ok"
\* when there was none; activations already under way go on
async_stop ==
  /\ pc = "running"
  /\ cpu = 0
  /\ check_task' = FALSE
  /\ stored' = [present |-> TRUE, timers |-> timers]
  /\ last' = Call("stop", "", IF check_task THEN "cancelled" ELSE "ok", 0,
                  TRUE, FALSE)
  /\ UNCHANGED <<timers, now, pc, ready, scan, ticks, cpu, fired, life, served,
                 boots, snap, gop>>

\* The process ends and a new one is set up: a fresh TimerManager (__init__)
\* on the same Store.
Restart ==
  /\ pc = "running"
  /\ cpu = 0
  /\ boots < MaxBoots
  /\ boots' = boots + 1
  /\ snap' = [snap EXCEPT !.left = timers, !.fired_left = fired]
  /\ timers' = EmptyTimers
  /\ pc' = "new"
  /\ ready' = FALSE
  /\ check_task' = FALSE
  /\ ticks' = [k \in TickIds |-> IdleTick]
  /\ gop' = IdleGroup
  /\ last' = NoCall
  /\ UNCHANGED <<stored, now, scan, cpu, fired, life, served>>

\* ------------------------------------------------------- object identity
\* A tick iterates over list(self._timers.items()): it holds the timer dicts
\* themselves.  held[n] says what the dict a tick holds for n is:
\*   "live"     the dict that is in self._timers now (in-place changes show)
\*   "removed"  the newest instance of n, deleted from self._timers since
\*   "stale"    an instance that a later create has replaced
\* objs[n] keeps the fields of a dict that is no longer in self._timers.
OnDelete(tk, n) ==
  IF tk.pc = "scan" /\ n \in tk.todo /\ tk.held[n] = "live"
    THEN [tk EXCEPT !.held[n] = "removed", !.objs[n] = timers[n]]
    ELSE tk

OnReplace(tk, n) ==
  IF tk.pc = "scan" /\ n \in tk.todo
    THEN IF tk.held[n] = "live" /\ timers[n] # NoTimer
           THEN [tk EXCEPT !.held[n] = "stale", !.objs[n] = timers[n]]
           ELSE [tk EXCEPT !.held[n] = "stale"]
    ELSE tk

Other == [NoLife EXCEPT !.stage = "other"]
Saved(ts) == [present |-> TRUE, timers |-> ts]

\* ------------------------------------------------------- create_timer
\* The actions argument is <<"list", the list>> or <<"dict", one action>>; the
\* groups argument is a set of group names or NoGroups (None).
NoGroups == {"<None>"}
ActionList(actions) == IF actions[1] = "dict" THEN <<actions[2]>> ELSE actions[2]
GroupList(groups) == IF groups = NoGroups THEN {} ELSE groups

\* the dict create_timer stores when the old dict's fields are merged in
NewTimerMergesOld(old, t, duration, actions, restart_behavior, groups) ==
  Timer(STATE_ACTIVE, isoformat(FALSE, t + duration), old.remaining,
        ActionList(actions), restart_behavior,
        GroupList(groups) \cup old.groups)

\* the dict create_timer stores
NewTimerFromDuration(old, t, duration, actions, restart_behavior, groups) ==
  Timer(STATE_ACTIVE, isoformat(FALSE, t + duration), NoRemaining,
        ActionList(actions), restart_behavior, GroupList(groups))

create_timer(n, duration, actions, restart_behavior, groups) ==
  /\ pc = "running"
  /\ cpu = 0
  /\ timers' = [timers EXCEPT ![n] =
                  NewTimerFromDuration(timers[n], now, duration, actions,
                                       restart_behavior, groups)]
  /\ ticks' = [k \in TickIds |-> OnReplace(ticks[k], n)]
  /\ gop' = GroupOnCreate(gop, n)
  /\ stored' = Saved(timers')
  \* "replaced": the name was a key, which the code logs as a warning
  /\ last' = Call("create", n, IF timers[n] # NoTimer THEN "replaced" ELSE "ok",
                  0, TRUE, TRUE)
  /\ fired' = [fired EXCEPT ![n] = 0]
  /\ life' = [life EXCEPT ![n] = [NoLife EXCEPT !.stage = "created",
                                                !.due = now + duration]]
  /\ served' = served \ {n}
  /\ UNCHANGED <<now, pc, ready, check_task, scan, cpu, boots, snap>>

\* ------------------------------------------------------- pause_timer
\* What pause_timer does to timer r at time t: res is "missing", "wrong_state",
\* "raised" (an exception leaves the call before anything is changed) or "ok".
PauseResultNoClamp(r, t) ==
  IF r = NoTimer THEN [res |-> "missing", timer |-> r]
  ELSE IF r.state # STATE_ACTIVE THEN [res |-> "wrong_state", timer |-> r]
  ELSE LET p == fromisoformat(r.expiry) IN
       IF ~p.ok \/ p.aware THEN [res |-> "raised", timer |-> r]
       ELSE [res |-> "ok",
             timer |-> [r EXCEPT !.state = STATE_PAUSED,
                                 !.remaining = p.t - t,
                                 !.expiry = NoExpiry]]

PauseResult(r, t) ==
  IF r = NoTimer THEN [res |-> "missing", timer |-> r]
  ELSE IF r.state # STATE_ACTIVE THEN [res |-> "wrong_state", timer |-> r]
  ELSE LET p == fromisoformat(r.expiry) IN
       \* timer["expiry"] missing or unparsable: KeyError/ValueError;
       \* offset-aware minus datetime.now(): TypeError
       IF ~p.ok \/ p.aware THEN [res |-> "raised", timer |-> r]
       ELSE [res |-> "ok",
             timer |-> [r EXCEPT !.state = STATE_PAUSED,
                                 !.remaining = Max(0, p.t - t),
                                 !.expiry = NoExpiry]]

pause_timer(n) ==
  /\ pc = "running"
  /\ cpu = 0
  /\ LET out == PauseResult(timers[n], now)
         ok == out.res = "ok"
     IN /\ timers' = [timers EXCEPT ![n] = out.timer]
        /\ stored' = IF ok THEN Saved(timers') ELSE stored
        /\ last' = Call("pause", n, out.res, 0, ok, ok)
        /\ life' = IF ~ok THEN life
                   ELSE IF life[n].stage = "created"
                     THEN [life EXCEPT ![n].stage = "paused", ![n].t1 = now]
                     ELSE [life EXCEPT ![n] = Other]
  /\ UNCHANGED <<gop, now, pc, ready, check_task, scan, ticks, cpu, fired, served,
                 boots, snap>>

\* ------------------------------------------------------- resume_timer
\* "raised": del timer["remaining_duration"] raises KeyError after state and
\* expiry were assigned; nothing is saved.
ResumeResultIgnoresRemaining(r, t) ==
  IF r = NoTimer THEN [res |-> "missing", timer |-> r]
  ELSE IF r.state # STATE_PAUSED THEN [res |-> "wrong_state", timer |-> r]
  ELSE [res |-> IF r.remaining = NoRemaining THEN "raised" ELSE "ok",
        timer |-> [r EXCEPT !.state = STATE_ACTIVE,
                            !.expiry = isoformat(FALSE, t),
                            !.remaining = NoRemaining]]

ResumeResult(r, t) ==
  IF r = NoTimer THEN [res |-> "missing", timer |-> r]
  ELSE IF r.state # STATE_PAUSED THEN [res |-> "wrong_state", timer |-> r]
  ELSE LET remaining == IF r.remaining = NoRemaining THEN 0 ELSE r.remaining IN
       [res |-> IF r.remaining = NoRemaining THEN "raised" ELSE "ok",
        timer |-> [r EXCEPT !.state = STATE_ACTIVE,
                            !.expiry = isoformat(FALSE, t + remaining),
                            !.remaining = NoRemaining]]

resume_timer(n) ==
  /\ pc = "running"
  /\ cpu = 0
  /\ LET out == ResumeResult(timers[n], now)
         ok == out.res = "ok"
     IN /\ timers' = [timers EXCEPT ![n] = out.timer]
        /\ stored' = IF ok THEN Saved(timers') ELSE stored
        /\ last' = Call("resume", n, out.res, 0, ok, ok)
        /\ life' = IF out.res \in {"missing", "wrong_state"} THEN life
                   ELSE IF ok /\ life[n].stage = "paused"
                     THEN [life EXCEPT ![n].stage = "resumed", ![n].t2 = now]
                     ELSE [life EXCEPT ![n] = Other]
  /\ UNCHANGED <<gop, now, pc, ready, check_task, scan, ticks, cpu, fired, served,
                 boots, snap>>

\* ------------------------------------------------------- cancel_timer
\* cancel that pops the name and saves and notifies whether or not it was there
cancel_timerSavesAlways(n) ==
  /\ pc = "running"
  /\ cpu = 0
  /\ LET ok == timers[n] # NoTimer IN
       /\ timers' = [timers EXCEPT ![n] = NoTimer]
       /\ ticks' = IF ok THEN [k \in TickIds |-> OnDelete(ticks[k], n)] ELSE ticks
       /\ gop' = GroupOnDelete(gop, n)
       /\ stored' = Saved(timers')
       /\ last' = Call("cancel", n, IF ok THEN "ok" ELSE "missing", 0, TRUE, TRUE)
       /\ life' = IF ok THEN [life EXCEPT ![n] = NoLife] ELSE life
  /\ UNCHANGED <<now, pc, ready, check_task, scan, cpu, fired, served, boots, snap>>

cancel_timer(n) ==
  /\ pc = "running"
  /\ cpu = 0
  /\ LET ok == timers[n] # NoTimer IN
       /\ timers' = [timers EXCEPT ![n] = NoTimer]
       /\ ticks' = IF ok THEN [k \in TickIds |-> OnDelete(ticks[k], n)] ELSE ticks
       /\ gop' = GroupOnDelete(gop, n)
       /\ stored' = IF ok THEN Saved(timers') ELSE stored
       /\ last' = Call("cancel", n, IF ok THEN "ok" ELSE "missing", 0, ok, ok)
       /\ life' = IF ok THEN [life EXCEPT ![n] = NoLife] ELSE life
  /\ UNCHANGED <<now, pc, ready, check_task, scan, cpu, fired, served, boots, snap>>

\* ------------------------------------------------------- extend_timer
\* The add_duration argument is <<kind, v>>: "none" (not given), "num" (the
\* number v) or "str" (given, not a number).
NoAdd == <<"none", 0>>
AddTruthy(a) == a[1] = "str" \/ (a[1] = "num" /\ a[2] # 0)
AddValid(a) == a[1] = "num" /\ a[2] > 0

\* res: "missing", "neither", "wrong_state", "bad_expiry", "bad_duration",
\* "error" (the ValueError/TypeError handler of the add branch), "raised"
\* (KeyError of timer["expiry"], not handled) or "ok".
ExtendResultFromNow(r, t, add, nexp) ==
  IF r = NoTimer THEN [res |-> "missing", timer |-> r]
  ELSE IF ~AddTruthy(add) /\ ~Truthy(nexp) THEN [res |-> "neither", timer |-> r]
  ELSE IF r.state # STATE_ACTIVE THEN [res |-> "wrong_state", timer |-> r]
  ELSE IF Truthy(nexp)
    THEN LET p == fromisoformat(nexp) IN
         IF ~p.ok THEN [res |-> "bad_expiry", timer |-> r]
         ELSE [res |-> "ok", timer |-> [r EXCEPT !.expiry = isoformat(p.aware, p.t)]]
  ELSE IF ~AddValid(add) THEN [res |-> "bad_duration", timer |-> r]
  ELSE IF r.expiry = NoExpiry THEN [res |-> "raised", timer |-> r]
  ELSE LET c == fromisoformat(r.expiry) IN
       IF ~c.ok THEN [res |-> "error", timer |-> r]
       ELSE [res |-> "ok",
             timer |-> [r EXCEPT !.expiry = isoformat(c.aware, t + add[2])]]

ExtendResultAppliesRejected(r, t, add, nexp) ==
  IF r = NoTimer THEN [res |-> "missing", timer |-> r]
  ELSE IF ~AddTruthy(add) /\ ~Truthy(nexp) THEN [res |-> "neither", timer |-> r]
  ELSE IF r.state # STATE_ACTIVE THEN [res |-> "wrong_state", timer |-> r]
  ELSE IF Truthy(nexp)
    THEN LET p == fromisoformat(nexp) IN
         IF ~p.ok THEN [res |-> "bad_expiry", timer |-> [r EXCEPT !.expiry = nexp]]
         ELSE [res |-> "ok", timer |-> [r EXCEPT !.expiry = isoformat(p.aware, p.t)]]
  ELSE IF ~AddValid(add) THEN [res |-> "bad_duration", timer |-> r]
  ELSE IF r.expiry = NoExpiry THEN [res |-> "raised", timer |-> r]
  ELSE LET c == fromisoformat(r.expiry) IN
       IF ~c.ok THEN [res |-> "error", timer |-> r]
       ELSE [res |-> "ok",
             timer |-> [r EXCEPT !.expiry = isoformat(c.aware, c.t + add[2])]]

ExtendResult(r, t, add, nexp) ==
  IF r = NoTimer THEN [res |-> "missing", timer |-> r]
  ELSE IF ~AddTruthy(add) /\ ~Truthy(nexp) THEN [res |-> "neither", timer |-> r]
  ELSE IF r.state # STATE_ACTIVE THEN [res |-> "wrong_state", timer |-> r]
  ELSE IF Truthy(nexp)
    THEN LET p == fromisoformat(nexp) IN
         IF ~p.ok THEN [res |-> "bad_expiry", timer |-> r]
         ELSE [res |-> "ok", timer |-> [r EXCEPT !.expiry = isoformat(p.aware, p.t)]]
  ELSE IF ~AddValid(add) THEN [res |-> "bad_duration", timer |-> r]
  ELSE IF r.expiry = NoExpiry THEN [res |-> "raised", timer |-> r]
  ELSE LET c == fromisoformat(r.expiry) IN
       IF ~c.ok THEN [res |-> "error", timer |-> r]
       ELSE [res |-> "ok",
             timer |-> [r EXCEPT !.expiry = isoformat(c.aware, c.t + add[2])]]

extend_timer(n, add, nexp) ==
  /\ pc = "running"
  /\ cpu = 0
  /\ LET out == ExtendResult(timers[n], now, add, nexp)
         ok == out.res = "ok"
     IN /\ timers' = [timers EXCEPT ![n] = out.timer]
        /\ stored' = IF ok THEN Saved(timers') ELSE stored
        /\ last' = Call("extend", n, out.res, IF ok /\ ~Truthy(nexp) THEN add[2] ELSE 0, ok, ok)
        /\ life' = IF ~ok THEN life
                   ELSE IF ~Truthy(nexp) /\ life[n].stage \in {"created", "extended"}
                     THEN [life EXCEPT ![n].stage = "extended",
                                       ![n].added = @ + add[2]]
                     ELSE [life EXCEPT ![n] = Other]
  /\ UNCHANGED <<gop, now, pc, ready, check_task, scan, ticks, cpu, fired, served,
                 boots, snap>>

\* ------------------------------------------------------- group operations
\* the single-timer operation a group call invokes on a member
GroupCallResult(op, r, t, add, nexp) ==
  CASE op = "pause" -> PauseResult(r, t)
    [] op = "resume" -> ResumeResult(r, t)
    [] op = "extend" -> ExtendResult(r, t, add, nexp)
    [] OTHER -> [res |-> IF r = NoTimer THEN "missing" ELSE "ok", timer |-> NoTimer]

\* the start of pause_group, resume_group and extend_group: the for statement
\* makes an iterator over self._timers.items()
GroupStart(op, group, add, nexp) ==
  /\ pc = "running"
  /\ cpu = 0
  /\ gop.pc = "idle"
  /\ gop' = [IdleGroup EXCEPT
               !.pc = "run", !.op = op, !.group = group, !.live = TRUE,
               !.todo = Present(timers), !.size = Cardinality(Present(timers)),
               !.members = {n \in Names : GroupMember(timers[n], group)},
               !.add = add, !.nexp = nexp]
  /\ cpu' = GroupCpu
  /\ last' = NoCall
  /\ UNCHANGED <<timers, stored, now, pc, ready, check_task, scan, ticks, fired,
                 life, served, boots, snap>>

pause_group(group) == GroupStart("pause", group, NoAdd, NoExpiry)
resume_group(group) == GroupStart("resume", group, NoAdd, NoExpiry)
extend_group(group, add_duration, new_expiry) ==
  GroupStart("extend", group, add_duration, new_expiry)

\* cancel_group first makes the list of the members' names
cancel_group(group) ==
  /\ pc = "running"
  /\ cpu = 0
  /\ gop.pc = "idle"
  /\ LET timers_to_cancel == {n \in Names : GroupMember(timers[n], group)} IN
       gop' = [IdleGroup EXCEPT
                 !.pc = "run", !.op = "cancel", !.group = group, !.live = FALSE,
                 !.todo = timers_to_cancel, !.members = timers_to_cancel]
  /\ cpu' = GroupCpu
  /\ last' = NoCall
  /\ UNCHANGED <<timers, stored, now, pc, ready, check_task, scan, ticks, fired,
                 life, served, boots, snap>>

\* the group call runs, or is woken from the save it was suspended in
GroupRuns ==
  \/ gop.pc = "run" /\ cpu = GroupCpu
  \/ gop.pc = "saved" /\ cpu = 0
\* next() of a dict iterator raises RuntimeError when the dict's size changed
SizeChanged == gop.live /\ Cardinality(Present(timers)) # gop.size

\* one iteration of a group loop that goes on after a changed dict size
GroupVisitIgnoresSize(n) ==
  /\ GroupRuns
  /\ n \in gop.todo
  /\ gop.calls[n] < MaxCalls
  /\ LET r == timers[n]
         hit == ~gop.live \/ GroupMember(r, gop.group)
         out == GroupCallResult(gop.op, r, now, gop.add, gop.nexp)
         ok == hit /\ out.res = "ok"
         raised == hit /\ out.res = "raised"
         g1 == [gop EXCEPT !.todo = @ \ {n},
                           !.calls[n] = IF hit THEN @ + 1 ELSE @]
     IN /\ timers' = IF hit THEN [timers EXCEPT ![n] = out.timer] ELSE timers
        /\ stored' = IF ok THEN Saved(timers') ELSE stored
        /\ gop' = IF raised THEN [g1 EXCEPT !.pc = "done", !.res = "raised", !.todo = {}]
                   ELSE IF ok THEN [g1 EXCEPT !.pc = "saved"]
                   ELSE [g1 EXCEPT !.pc = "run"]
        /\ cpu' = IF ok THEN 0 ELSE GroupCpu
        /\ ticks' = IF ok /\ gop.op = "cancel"
                      THEN [k \in TickIds |-> OnDelete(ticks[k], n)] ELSE ticks
        /\ life' = IF timers'[n] = timers[n] THEN life
                    ELSE IF gop.op = "cancel" THEN [life EXCEPT ![n] = NoLife]
                    ELSE [life EXCEPT ![n] = Other]
  /\ last' = NoCall
  /\ UNCHANGED <<now, pc, ready, check_task, scan, fired, served, boots, snap>>

\* one iteration of a group loop: the iterator yields n, and when n is a
\* member the single-timer operation is awaited; it suspends in its save
GroupVisit(n) ==
  /\ GroupRuns
  /\ ~SizeChanged
  /\ n \in gop.todo
  /\ gop.calls[n] < MaxCalls
  /\ LET r == timers[n]
         hit == ~gop.live \/ GroupMember(r, gop.group)
         out == GroupCallResult(gop.op, r, now, gop.add, gop.nexp)
         ok == hit /\ out.res = "ok"
         raised == hit /\ out.res = "raised"
         g1 == [gop EXCEPT !.todo = @ \ {n},
                           !.calls[n] = IF hit THEN @ + 1 ELSE @]
     IN /\ timers' = IF hit THEN [timers EXCEPT ![n] = out.timer] ELSE timers
        /\ stored' = IF ok THEN Saved(timers') ELSE stored
        /\ gop' = IF raised THEN [g1 EXCEPT !.pc = "done", !.res = "raised", !.todo = {}]
                   ELSE IF ok THEN [g1 EXCEPT !.pc = "saved"]
                   ELSE [g1 EXCEPT !.pc = "run"]
        /\ cpu' = IF ok THEN 0 ELSE GroupCpu
        /\ ticks' = IF ok /\ gop.op = "cancel"
                      THEN [k \in TickIds |-> OnDelete(ticks[k], n)] ELSE ticks
        /\ life' = IF timers'[n] = timers[n] THEN life
                    ELSE IF gop.op = "cancel" THEN [life EXCEPT ![n] = NoLife]
                    ELSE [life EXCEPT ![n] = Other]
  /\ last' = NoCall
  /\ UNCHANGED <<now, pc, ready, check_task, scan, fired, served, boots, snap>>

\* the loop ends: the iterator is exhausted, or its next() raised
GroupEnd ==
  /\ GroupRuns
  /\ SizeChanged \/ gop.todo = {}
  /\ gop' = [gop EXCEPT !.pc = "done", !.todo = {},
                        !.res = IF SizeChanged THEN "raised" ELSE "ok"]
  /\ cpu' = GroupCpu
  /\ last' = NoCall
  /\ UNCHANGED <<timers, stored, now, pc, ready, check_task, scan, ticks, fired,
                 life, served, boots, snap>>

\* the group call logs its count and returns, or its exception reaches the
\* service handler
GroupReturn ==
  /\ gop.pc = "done"
  /\ gop' = IdleGroup
  /\ cpu' = 0
  /\ last' = NoCall
  /\ UNCHANGED <<timers, stored, now, pc, ready, check_task, scan, ticks, fired,
                 life, served, boots, snap>>

\* ------------------------------------------------------- _async_check_timers
\* One iteration of the tick's loop on timer dict r at time t: "expired" (its
\* actions are dispatched), "invalid" or "keep".
TickOutcomeStrictlyAfter(r, t) ==
  IF r.state = STATE_ACTIVE /\ Truthy(r.expiry)
    THEN LET p == fromisoformat(r.expiry) IN
         IF ~p.ok THEN "invalid"
         ELSE IF p.aware THEN "invalid"
         ELSE IF p.t < t THEN "expired" ELSE "keep"
    ELSE "keep"

TickOutcome(r, t) ==
  IF r.state = STATE_ACTIVE /\ Truthy(r.expiry)
    THEN LET p == fromisoformat(r.expiry) IN
         IF ~p.ok THEN "invalid"
         \* expiry <= datetime.now() raises TypeError: "except Exception"
         ELSE IF p.aware THEN "invalid"
         ELSE IF p.t <= t THEN "expired" ELSE "keep"
    ELSE "keep"

\* the interval listener starts an activation; it does not wait for an
\* earlier one to finish
TickStart(k) ==
  /\ check_task
  /\ cpu = 0
  /\ ticks[k].pc = "idle"
  /\ \A j \in TickIds : j < k => ticks[j].pc # "idle"
  /\ \A j \in TickIds :
       ticks[j].pc # "idle" => ticks[j].start + CHECK_INTERVAL <= now
  /\ ticks' = [ticks EXCEPT ![k] =
                 [IdleTick EXCEPT !.pc = "scan", !.todo = Present(timers),
                                  !.start = now]]
  /\ cpu' = k
  /\ last' = NoCall
  /\ UNCHANGED <<gop, timers, stored, now, pc, ready, check_task, scan, fired, life,
                 served, boots, snap>>

TickItem(k, n) ==
  /\ cpu \in {0, k}
  /\ ticks[k].pc = "scan"
  /\ n \in ticks[k].todo
  /\ LET tk == ticks[k]
         r == IF tk.held[n] = "live" THEN timers[n] ELSE tk.objs[n]
         out == TickOutcome(r, now)
         done == [tk EXCEPT !.todo = @ \ {n}, !.held[n] = "live", !.objs[n] = NoTimer]
     IN /\ ticks' = [ticks EXCEPT ![k] =
                       CASE out = "expired" -> [done EXCEPT !.expired = @ \cup {n}]
                         [] out = "invalid" -> [done EXCEPT !.invalid = @ \cup {n}]
                         [] OTHER -> done]
        /\ fired' = IF out = "expired" /\ tk.held[n] # "stale"
                      THEN [fired EXCEPT ![n] = @ + 1] ELSE fired
        /\ cpu' = IF out = "expired" /\ DispatchSuspends(r.actions) THEN 0 ELSE k
        /\ last' = IF out = "expired" THEN Dispatched(n, r.actions) ELSE NoCall
  /\ UNCHANGED <<gop, timers, stored, now, pc, ready, check_task, scan, life, served,
                 boots, snap>>

\* names whose never-touched timer was due when tick tk started
ServedBy(tk) ==
  {n \in Names : life[n].stage = "created" /\ life[n].due <= tk.start}

\* the removals, and the save when anything was marked
TickFinish(k) ==
  /\ cpu \in {0, k}
  /\ ticks[k].pc = "scan"
  /\ ticks[k].todo = {}
  /\ LET tk == ticks[k]
         all_timers_to_remove == tk.expired \cup tk.invalid
     IN /\ timers' = [n \in Names |->
                        IF n \in all_timers_to_remove THEN NoTimer ELSE timers[n]]
        /\ gop' = IF gop.pc \in {"run", "saved"}
                     THEN [gop EXCEPT
                             !.todo = IF gop.live
                                        THEN @ \ (all_timers_to_remove \cap Present(timers))
                                        ELSE @,
                             !.gone = @ \cup (all_timers_to_remove \cap Present(timers))]
                     ELSE gop
        /\ IF all_timers_to_remove # {}
             THEN /\ stored' = Saved(timers')
                  /\ ticks' = [j \in TickIds |->
                                 IF j = k THEN [IdleTick EXCEPT !.pc = "saved",
                                                                !.start = tk.start]
                                 ELSE IF ticks[j].pc = "scan"
                                   THEN [ticks[j] EXCEPT
                                           !.held = [n \in Names |->
                                              IF n \in all_timers_to_remove
                                                 /\ n \in ticks[j].todo
                                                 /\ ticks[j].held[n] = "live"
                                                THEN "removed" ELSE ticks[j].held[n]],
                                           !.objs = [n \in Names |->
                                              IF n \in all_timers_to_remove
                                                 /\ n \in ticks[j].todo
                                                 /\ ticks[j].held[n] = "live"
                                                THEN timers[n] ELSE ticks[j].objs[n]]]
                                   ELSE ticks[j]]
                  /\ served' = served
             ELSE /\ stored' = stored
                  /\ ticks' = [ticks EXCEPT ![k] = IdleTick]
                  /\ served' = served \cup ServedBy(tk)
  /\ cpu' = 0
  /\ last' = NoCall
  /\ UNCHANGED <<now, pc, ready, check_task, scan, fired, life, boots, snap>>

\* after the save: _notify_sensor_update, and the activation ends
TickNotify(k) ==
  /\ cpu = 0
  /\ ticks[k].pc = "saved"
  /\ ticks' = [ticks EXCEPT ![k] = IdleTick]
  /\ served' = served \cup ServedBy(ticks[k])
  /\ last' = NoCall
  /\ UNCHANGED <<gop, timers, stored, now, pc, ready, check_task, scan, cpu, fired,
                 life, boots, snap>>

\* wall time passes while no coroutine holds the event loop
AdvanceTime ==
  /\ cpu = 0
  /\ now < MaxTime
  /\ now' = now + 1
  /\ last' = NoCall
  /\ UNCHANGED <<gop, timers, stored, pc, ready, check_task, scan, ticks, cpu, fired,
                 life, served, boots, snap>>

\* ------------------------------------------------------- recovery harness
\* Snapshots a Store may hold when the manager starts: records written by the
\* manager and records that are corrupt in each way the code tests for.
BootNow == 1
LoadedExpiries ==
  {NoExpiry, BadExpiry, AwareAt(BootNow - 1), AwareAt(BootNow + 1)}
    \cup {NaiveAt(t) : t \in (BootNow - 1)..(BootNow + 1)}
LoadedActions == {<<ACTION_EVENT>>, <<ACTION_SERVICE, ACTION_EVENT>>}
LoadedRecords ==
  {Timer(st, ex, rem, acts, rb, {}) :
     st \in {STATE_ACTIVE, STATE_PAUSED, "bogus"},
     ex \in LoadedExpiries,
     rem \in {NoRemaining, 1},
     acts \in LoadedActions,
     rb \in {RESTART_RESUME, RESTART_SKIP, RESTART_EXECUTE}}
    \cup {NoTimer}

InitCommon ==
  /\ timers = EmptyTimers
  /\ pc = "new"
  /\ ready = FALSE
  /\ check_task = FALSE
  /\ scan = [todo |-> {}, remove |-> {}]
  /\ ticks = [k \in TickIds |-> IdleTick]
  /\ cpu = 0
  /\ fired = [n \in Names |-> 0]
  /\ last = NoCall
  /\ life = [n \in Names |-> NoLife]
  /\ served = {}
  /\ boots = 0
  /\ snap = NoSnap
  /\ gop = IdleGroup

InitRecovery ==
  /\ InitCommon
  /\ now = BootNow
  /\ \E ts \in [Names -> LoadedRecords] : stored = [present |-> TRUE, timers |-> ts]

NextRecovery ==
  \/ async_load
  \/ \E n \in Names : RecoverTimer(n)
  \/ RecoverFinish
  \/ Restart

SpecRecovery == InitRecovery /\ [][NextRecovery]_vars

\* ------------------------------------------------------- the manager at work
\* The inputs of the lifecycle calls.
Durations == 1..MaxDur
CreateActions == {<<"list", <<ACTION_EVENT>>>>, <<"list", <<ACTION_SERVICE>>>>}
\* extend: <<add_duration, new_expiry>>, one pair or more for each way the
\* arguments can be given
ExtendInputs ==
  {<<NoAdd, NoExpiry>>, <<<<"num", 0>>, NoExpiry>>, <<<<"num", -1>>, NoExpiry>>,
   <<<<"str", 0>>, NoExpiry>>, <<NoAdd, BadExpiry>>, <<<<"num", 1>>, BadExpiry>>,
   <<NoAdd, AltAt(MaxTime)>>, <<NoAdd, AwareAt(MaxTime)>>,
   <<<<"num", 1>>, AltAt(MaxTime)>>, <<<<"num", -1>>, AltAt(MaxTime)>>}
    \cup {<<<<"num", v>>, NoExpiry>> : v \in 1..MaxAdd}
ExpiryCap == MaxTime + MaxDur
\* the timers that are resumed and extended; the others are bystanders that
\* are created, paused and cancelled (the code treats all names alike)
Subjects == {"a"}

\* an extend whose result stays within the modelled range of expiries
ExtendInRange(n, add, nexp) ==
  LET c == fromisoformat(timers[n].expiry) IN
  (c.ok /\ AddValid(add)) => c.t + add[2] <= ExpiryCap

Init ==
  /\ InitCommon
  /\ now = 0
  /\ stored = [present |-> FALSE, timers |-> EmptyTimers]

\* The lifecycle calls alone, with every kind of argument.  The Store is empty
\* or holds a paused record without remaining_duration, which recovery keeps.
InitCalls ==
  /\ InitCommon
  /\ now = 0
  /\ stored \in {[present |-> FALSE, timers |-> EmptyTimers],
                 [present |-> TRUE,
                  timers |-> [EmptyTimers EXCEPT !["a"] =
                     Timer(STATE_PAUSED, NoExpiry, NoRemaining, <<ACTION_EVENT>>,
                           RESTART_RESUME, {})]]}

NextCalls ==
  \/ async_load
  \/ \E n \in Names : RecoverTimer(n)
  \/ RecoverFinish
  \/ \E n \in Names, d \in Durations :
       create_timer(n, d, <<"list", <<ACTION_EVENT>>>>, RESTART_RESUME, NoGroups)
  \/ \E n \in Names : pause_timer(n)
  \/ \E n \in Subjects : resume_timer(n)
  \/ \E n \in Names : cancel_timer(n)
  \/ \E n \in Subjects, x \in ExtendInputs :
       ExtendInRange(n, x[1], x[2]) /\ extend_timer(n, x[1], x[2])
  \/ AdvanceTime

SpecCalls == InitCalls /\ [][NextCalls]_vars

\* The group calls, next to creates, pauses and cancels by others.  What
\* create is given: <<name, actions, restart_behavior, groups>>; the name ""
\* is a name not given, for which create_timer makes a uuid.
GroupNames == {"g"}
CreateInputs ==
  {<<n, <<"list", <<ACTION_EVENT>>>>, RESTART_RESUME, {"g"}>> : n \in Names}
    \cup {<<"b", <<"dict", ACTION_SERVICE>>, RESTART_SKIP, {"h"}>>,
          <<"", <<"list", <<ACTION_EVENT, ACTION_SERVICE>>>>, RESTART_EXECUTE, NoGroups>>}
\* str(uuid.uuid4()): a name that no timer has and no call in progress holds
NameFor(name) ==
  IF name = ""
    THEN Names \ (Present(timers) \cup gop.todo \cup gop.members
                    \cup UNION {ticks[k].todo : k \in TickIds})
    ELSE {name}

NextGroups ==
  \/ async_load
  \/ \E x \in CreateInputs : \E n \in NameFor(x[1]) :
       create_timer(n, MaxDur, x[2], x[3], x[4])
  \/ \E n \in Names : pause_timer(n)
  \/ \E n \in Names : cancel_timer(n)
  \/ \E g \in GroupNames : pause_group(g)
  \/ \E g \in GroupNames : resume_group(g)
  \/ \E g \in GroupNames : cancel_group(g)
  \/ \E g \in GroupNames : extend_group(g, NoAdd, AltAt(MaxTime + 1))
  \/ \E n \in Names : GroupVisit(n)
  \/ GroupEnd
  \/ GroupReturn

SpecGroups == Init /\ [][NextGroups]_vars

\* create_timer with every kind of argument, over absent, Active and Paused
\* timers
NextCreate ==
  \/ async_load
  \/ \E x \in CreateInputs, d \in Durations : \E n \in NameFor(x[1]) :
       create_timer(n, d, x[2], x[3], x[4])
  \/ \E n \in Names : pause_timer(n)
  \/ AdvanceTime

SpecCreate == Init /\ [][NextCreate]_vars

\* Startup, the scheduler and shutdown.  The Store is empty, or holds a due
\* timer next to a later one, or a paused timer alone.
StartSnapshots ==
  {[present |-> FALSE, timers |-> EmptyTimers],
   Saved([EmptyTimers EXCEPT
            !["a"] = Timer(STATE_ACTIVE, NaiveAt(0), NoRemaining,
                           <<ACTION_EVENT>>, RESTART_RESUME, {}),
            !["b"] = Timer(STATE_ACTIVE, NaiveAt(MaxTime), NoRemaining,
                           <<ACTION_SERVICE>>, RESTART_SKIP, {})]),
   Saved([EmptyTimers EXCEPT
            !["a"] = Timer(STATE_PAUSED, NoExpiry, 1, <<ACTION_EVENT>>,
                           RESTART_RESUME, {})])}

InitStart ==
  /\ InitCommon
  /\ now = 0
  /\ stored \in StartSnapshots

NextStart ==
  \/ async_load
  \/ \E n \in Names : RecoverTimer(n)
  \/ RecoverFinish
  \/ create_timer("a", 1, <<"list", <<ACTION_SERVICE>>>>, RESTART_RESUME, NoGroups)
  \/ \E n \in Names : cancel_timer(n)
  \/ \E k \in TickIds : TickStart(k)
  \/ \E k \in TickIds, n \in Names : TickItem(k, n)
  \/ \E k \in TickIds : TickFinish(k)
  \/ \E k \in TickIds : TickNotify(k)
  \/ AdvanceTime
  \/ async_stop
  \/ Restart

SpecStart == InitStart /\ [][NextStart]_vars

\* Dispatch by recovery and by ticks of timers whose action lists hold every
\* kind of action, each followed by a well-formed one.
DispatchLists ==
  {<<k, ACTION_EVENT>> : k \in ActionKinds}
    \cup {<<k, ACTION_SERVICE>> : k \in ActionKinds \ {ACTION_SERVICE}}
    \cup {<<"service_failing", "service_nodot", "not_a_dict", ACTION_EVENT>>}
DispatchSnapshots ==
  {[present |-> FALSE, timers |-> EmptyTimers]}
    \cup {Saved([EmptyTimers EXCEPT
                   !["b"] = Timer(STATE_ACTIVE, NaiveAt(0), NoRemaining, acts,
                                  RESTART_EXECUTE, {})]) :
             acts \in {<<"not_a_dict", ACTION_EVENT>>,
                       <<"service_failing", "untyped", ACTION_SERVICE>>}}

InitDispatch ==
  /\ InitCommon
  /\ now = 0
  /\ stored \in DispatchSnapshots

NextDispatch ==
  \/ async_load
  \/ \E n \in Names : RecoverTimer(n)
  \/ RecoverFinish
  \/ \E acts \in DispatchLists :
       create_timer("a", 1, <<"list", acts>>, RESTART_RESUME, NoGroups)
  \/ \E k \in TickIds : TickStart(k)
  \/ \E k \in TickIds, n \in Names : TickItem(k, n)
  \/ \E k \in TickIds : TickFinish(k)
  \/ \E k \in TickIds : TickNotify(k)
  \/ AdvanceTime

SpecDispatch == InitDispatch /\ [][NextDispatch]_vars

\* The scheduler next to every lifecycle call on one timer: ticks that
\* suspend in a dispatch while the timer is paused, resumed, extended,
\* cancelled or created anew.
TickExtendInputs ==
  {<<<<"num", 1>>, NoExpiry>>, <<NoAdd, AltAt(MaxTime)>>, <<NoAdd, AwareAt(1)>>}

NextTicks ==
  \/ async_load
  \/ \E n \in Subjects :
       create_timer(n, 1, <<"list", <<ACTION_SERVICE>>>>, RESTART_RESUME, NoGroups)
  \/ \E n \in Subjects : pause_timer(n)
  \/ \E n \in Subjects : resume_timer(n)
  \/ \E n \in Subjects : cancel_timer(n)
  \/ \E n \in Subjects, x \in TickExtendInputs :
       ExtendInRange(n, x[1], x[2]) /\ extend_timer(n, x[1], x[2])
  \/ \E k \in TickIds : TickStart(k)
  \/ \E k \in TickIds, n \in Names : TickItem(k, n)
  \/ \E k \in TickIds : TickFinish(k)
  \/ \E k \in TickIds : TickNotify(k)
  \/ AdvanceTime

SpecTicks == Init /\ [][NextTicks]_vars

\* the lifecycle calls and the scheduler
Next ==
  \/ async_load
  \/ \E n \in Names, acts \in CreateActions :
       create_timer(n, 1, acts, RESTART_RESUME, NoGroups)
  \/ \E n \in Names : cancel_timer(n)
  \/ \E k \in TickIds : TickStart(k)
  \/ \E k \in TickIds, n \in Names : TickItem(k, n)
  \/ \E k \in TickIds : TickFinish(k)
  \/ \E k \in TickIds : TickNotify(k)
  \/ AdvanceTime

Spec == Init /\ [][Next]_vars

\* =================================================================== claims
\* What the claims speak of, after a completed startup.
Started == pc = "running"
Loaded(n) == snap.loaded[n]
DispatchedOnce(n) == fired[n] = snap.fired0[n] + 1
NotDispatched(n) == fired[n] = snap.fired0[n]
Purged(n) == timers[n] = NoTimer
Kept(n) == timers[n] = Loaded(n)
ActiveParsable(r) == r.state = STATE_ACTIVE /\ fromisoformat(r.expiry).ok
OffsetFree(r) == ~fromisoformat(r.expiry).aware
ExpiryOf(r) == fromisoformat(r.expiry).t

\* a timer has state Active or Paused and exactly the field of its state
WellFormed(r) ==
  \/ r.state = STATE_ACTIVE /\ fromisoformat(r.expiry).ok /\ r.remaining = NoRemaining
  \/ r.state = STATE_PAUSED /\ r.expiry = NoExpiry /\ r.remaining # NoRemaining

\* C1: after startup every timer in the collection is Active with a parsable
\* expiry and no remaining duration, or Paused with a remaining duration and
\* no expiry.
C1_ExactlyOneField ==
  Started => \A n \in Present(timers) : WellFormed(timers[n])

\* C2: a timer that was only created, once a tick that started at or after its
\* expiry has completed, is gone and was dispatched exactly once.
C2_DueTimerFiredOnce ==
  \A n \in served :
    life[n].stage = "created" => timers[n] = NoTimer /\ fired[n] = 1

\* the part of C2 that no schedule of ticks and calls breaks: it is gone
C2_DueTimerRemoved ==
  \A n \in served :
    life[n].stage = "created" => timers[n] = NoTimer

\* a timer dispatched twice
C2_FiredTwice == \E n \in Names : fired[n] = 2

\* the restart policy table, for a loaded record r at time t
TableDispatches(r, t) ==
  \/ r.restart = RESTART_EXECUTE
  \/ r.restart = RESTART_RESUME /\ ExpiryOf(r) <= t
TablePurges(r, t) ==
  \/ r.restart = RESTART_EXECUTE
  \/ r.restart \in {RESTART_RESUME, RESTART_SKIP} /\ ExpiryOf(r) <= t

\* C3: recovery treats every loaded Active timer with a parsable expiry as the
\* policy table says.
C3_PolicyTable ==
  Started =>
    \A n \in Names :
      ActiveParsable(Loaded(n)) =>
        /\ IF TableDispatches(Loaded(n), now) THEN DispatchedOnce(n)
           ELSE NotDispatched(n)
        /\ IF TablePurges(Loaded(n), now) THEN Purged(n) ELSE Kept(n)

\* the policy table holds for the expiries that carry no UTC offset
C3_PolicyTableOffsetFree ==
  Started =>
    \A n \in Names :
      ActiveParsable(Loaded(n)) /\ OffsetFree(Loaded(n)) =>
        /\ IF TableDispatches(Loaded(n), now) THEN DispatchedOnce(n)
           ELSE NotDispatched(n)
        /\ IF TablePurges(Loaded(n), now) THEN Purged(n) ELSE Kept(n)

C5_RecoveryIdempotent ==
  boots >= 1 =>
    /\ fired = snap.fired_left
    /\ Started => timers = snap.left

C5_Witness ==
  /\ boots >= 1
  /\ Started
  /\ \E n, m \in Names :
       /\ snap.fired_left[n] = 1 /\ timers[n] = NoTimer
       /\ timers[m].state = STATE_ACTIVE

\* a record that is corrupt: Active with an unparsable expiry, or a state
\* that is neither Active nor Paused
Corrupt(r) ==
  /\ r # NoTimer
  /\ \/ r.state = STATE_ACTIVE /\ r.expiry[1] = "bad"
     \/ r.state \notin {STATE_ACTIVE, STATE_PAUSED}

\* what recovery does to record r when no other record is there: Paused is
\* kept; Active with a usable expiry follows the table; anything else
\* (corrupt, no expiry, an expiry that cannot be compared) is purged unheard
AloneDispatches(r, t) ==
  ActiveParsable(r) /\ OffsetFree(r) /\ TableDispatches(r, t)
AlonePurges(r, t) ==
  /\ r.state # STATE_PAUSED
  /\ ~(ActiveParsable(r) /\ OffsetFree(r)) \/ TablePurges(r, t)

Called(op, n) == last'.op = op /\ last'.name = n
OthersUnchanged(n) == \A m \in Names \ {n} : timers'[m] = timers[m]

\* C7: pause leaves the collection unchanged when the timer is missing or not
\* Active, and otherwise makes it Paused with remaining = max(0, expiry - now)
\* and no expiry.
C7_Pause ==
  [][\A n \in Names :
       Called("pause", n) =>
         IF timers[n] = NoTimer \/ timers[n].state # STATE_ACTIVE
           THEN timers' = timers
           ELSE /\ timers'[n] =
                     [timers[n] EXCEPT !.state = STATE_PAUSED,
                                       !.remaining = Max(0, ExpiryOf(timers[n]) - now),
                                       !.expiry = NoExpiry]
                /\ timers'[n].remaining >= 0
                /\ OthersUnchanged(n)]_vars

\* pause does so for every Active timer whose expiry carries no UTC offset
C7_PauseOffsetFree ==
  [][\A n \in Names :
       Called("pause", n) =>
         IF timers[n] = NoTimer \/ timers[n].state # STATE_ACTIVE
           THEN timers' = timers
           ELSE OffsetFree(timers[n]) =>
                  /\ timers'[n] =
                       [timers[n] EXCEPT !.state = STATE_PAUSED,
                                         !.remaining = Max(0, ExpiryOf(timers[n]) - now),
                                         !.expiry = NoExpiry]
                  /\ timers'[n].remaining >= 0
                  /\ OthersUnchanged(n)]_vars

\* the remaining duration resume reads: 0 when the record has none
RemainingOf(r) == IF r.remaining = NoRemaining THEN 0 ELSE r.remaining

\* C8: resume of a Paused timer makes it Active with expiry = now + remaining
\* and no remaining (an absent remaining counts as 0); resume of a missing or
\* not Paused timer changes nothing; hence after create, pause at t1 <= due and
\* resume at t2 the expiry is t2 + (due - t1), where due is the created expiry.
C8_Resume ==
  [][\A n \in Names :
       /\ Called("resume", n) =>
            IF timers[n] = NoTimer \/ timers[n].state # STATE_PAUSED
              THEN timers' = timers
              ELSE /\ timers'[n] =
                        [timers[n] EXCEPT
                           !.state = STATE_ACTIVE,
                           !.expiry = NaiveAt(now + RemainingOf(timers[n])),
                           !.remaining = NoRemaining]
                   /\ OthersUnchanged(n)
       /\ (life'[n].stage = "resumed" /\ life'[n].t1 <= life'[n].due) =>
            /\ timers'[n].state = STATE_ACTIVE
            /\ timers'[n].expiry =
                 NaiveAt(life'[n].t2 + (life'[n].due - life'[n].t1))]_vars

C8_Witness ==
  \E n \in Names :
    /\ last.op = "resume" /\ last.name = n /\ last.res = "ok"
    /\ life[n].stage = "resumed"
    /\ 0 < life[n].t1 /\ life[n].t1 < life[n].due /\ life[n].t1 < life[n].t2
    /\ timers[n].expiry = NaiveAt(life[n].t2 + (life[n].due - life[n].t1))

\* C9: an extend by add_duration A > 0 of an Active timer succeeds and moves
\* the expiry by exactly A from its value before the call, whatever the time;
\* extends accumulate.
C9_ExtendAdds ==
  [][\A n \in Names :
       \* no step is such a call on an Active timer and fails
       /\ \A v \in 1..MaxAdd :
            (/\ timers[n] # NoTimer /\ timers[n].state = STATE_ACTIVE
             /\ Called("extend", n)
             /\ ~(last'.res = "ok" /\ last'.added = v))
              => ~extend_timer(n, <<"num", v>>, NoExpiry)
       /\ (Called("extend", n) /\ last'.res = "ok" /\ last'.added > 0) =>
            /\ timers[n].state = STATE_ACTIVE
            /\ ExpiryOf(timers'[n]) = ExpiryOf(timers[n]) + last'.added
            /\ timers'[n] =
                 [timers[n] EXCEPT
                    !.expiry = isoformat(~OffsetFree(timers[n]),
                                         ExpiryOf(timers[n]) + last'.added)]
            /\ OthersUnchanged(n)
       /\ life'[n].stage = "extended" =>
            timers'[n].expiry = NaiveAt(life'[n].due + life'[n].added)]_vars

C9_Witness ==
  \E n \in Names :
    /\ last.op = "extend" /\ last.name = n /\ last.res = "ok" /\ last.added > 0
    /\ life[n].stage = "extended" /\ life[n].added > last.added
    /\ now > 0 /\ life[n].due + life[n].added > now + last.added
    /\ timers[n].expiry = NaiveAt(life[n].due + life[n].added)

\* add_duration is given and is not a positive number
AddNotPositive(add) == add # NoAdd /\ ~(add[1] = "num" /\ add[2] > 0)

\* the calls of extend the claim lists as rejected
RejectedAsClaimed(r, add, nexp) ==
  \/ r = NoTimer
  \/ r.state # STATE_ACTIVE
  \/ add = NoAdd /\ nexp = NoExpiry
  \/ AddNotPositive(add)
  \/ nexp # NoExpiry /\ ~fromisoformat(nexp).ok

\* the same, add_duration counting only when no new_expiry is given
Rejected(r, add, nexp) ==
  \/ r = NoTimer
  \/ r.state # STATE_ACTIVE
  \/ add = NoAdd /\ nexp = NoExpiry
  \/ nexp = NoExpiry /\ AddNotPositive(add)
  \/ nexp # NoExpiry /\ ~fromisoformat(nexp).ok

C11_MissingAndCancel ==
  [][\A n \in Names :
       /\ (timers[n] = NoTimer /\ \E op \in {"pause", "resume", "cancel", "extend"} :
                                     Called(op, n)) =>
            /\ last'.res = "missing"
            /\ timers' = timers
            /\ stored' = stored
            /\ ~last'.saved /\ ~last'.notified
            /\ fired' = fired
       /\ (timers[n] # NoTimer /\ Called("cancel", n)) =>
            /\ timers'[n] = NoTimer
            /\ OthersUnchanged(n)
            /\ stored' = Saved(timers')
            /\ last'.saved /\ last'.notified
            /\ fired' = fired]_vars

C11_Witness ==
  /\ last.op = "cancel" /\ last.res = "ok"
  /\ timers[last.name] = NoTimer
  /\ \E m \in Names \ {last.name} : timers[m].state = STATE_PAUSED

\* a call addressed to a missing name has happened
C11_WitnessMissing ==
  /\ last.op \in {"pause", "resume", "extend"} /\ last.res = "missing"
  /\ \E m \in Names \ {last.name} : timers[m] # NoTimer

\* a step taken by the group call in progress (every call by others is
\* recorded in last)
GroupActs == gop.pc \in {"run", "saved"} /\ last'.op = "none"
Changed(n) == timers'[n] # timers[n]

\* C13: a group call with group g changes only timers whose groups contain g.
C13_GroupFrame ==
  [][GroupActs =>
       \A n \in Names : Changed(n) => GroupMember(timers[n], gop.group)]_vars

\* pause_group, resume_group and extend_group change only timers whose groups
\* contain g; cancel_group removes only names that were members when it began
C13_GroupFrameByName ==
  [][GroupActs =>
       \A n \in Names :
         Changed(n) => IF gop.live THEN GroupMember(timers[n], gop.group)
                       ELSE n \in gop.members]_vars

\* a group call has removed a timer that is not in its group
C13_RemovedOutsider ==
  /\ gop.pc = "saved" /\ gop.op = "cancel"
  /\ \E n \in gop.gone : gop.calls[n] = 1 /\ timers[n] = NoTimer

\* C14: a group call is never ended by an exception, and when it is over the
\* single-timer operation has been invoked exactly once on every timer that
\* was a member when it started and was not deleted or replaced meanwhile.
C14_GroupFanOut ==
  gop.pc = "done" =>
    /\ gop.res = "ok"
    /\ \A n \in gop.members \ gop.gone : gop.calls[n] = 1

\* cancel_group, which iterates its own list, does so
C14_CancelGroupFanOut ==
  (gop.pc = "done" /\ gop.op = "cancel") =>
    /\ gop.res = "ok"
    /\ \A n \in gop.members : gop.calls[n] = 1

\* a member that is still there was never reached
C14_MemberMissed ==
  /\ gop.pc = "done" /\ gop.res = "raised"
  /\ \E n \in gop.members \ gop.gone :
       gop.calls[n] = 0 /\ GroupMember(timers[n], gop.group)


\* C12: create(name, D, actions, restartBehavior, groups) at time t replaces:
\* afterwards the name maps to an Active timer with expiry t + D, the given
\* actions (one action alone becomes a list of one), restartBehavior and
\* groups and no remainingDuration, whatever the name held before; the other
\* timers are unchanged and the returned name is the key.
Given(actions) == IF actions[1] = "dict" THEN <<actions[2]>> ELSE actions[2]
C12_CreateReplaces ==
  [][\A x \in CreateInputs, d \in Durations : \A n \in NameFor(x[1]) :
       (\/ timers'[n] # Timer(STATE_ACTIVE, NaiveAt(now + d), NoRemaining,
                              Given(x[2]), x[3],
                              IF x[4] = NoGroups THEN {} ELSE x[4])
        \/ ~OthersUnchanged(n)
        \/ ~Called("create", n)
        \/ stored' # [present |-> TRUE, timers |-> timers'])
       => ~create_timer(n, d, x[2], x[3], x[4])]_vars
\* a create has just replaced a Paused timer of group g by one of group h
C12_Witness ==
  /\ last.op = "create" /\ last.res = "replaced" /\ last.name = "b"
  /\ timers["b"].groups = {"h"}
  /\ timers["b"].actions = <<ACTION_SERVICE>>
  /\ life["b"].stage = "created"

\* C15: every operation that changes the collection writes the whole of it,
\* so whenever the manager runs and no operation is in flight the snapshot in
\* the Store equals the collection (no snapshot standing for an empty one).
Snapshot == IF stored.present THEN stored.timers ELSE EmptyTimers
CaughtUp == timers = Snapshot
C15_SnapshotCatchesUp == (pc = "running" /\ cpu = 0) => CaughtUp
\* the same, for every step but a call that an exception leaves
C15_CatchesUpUnlessRaised ==
  [][(pc = "running" /\ CaughtUp /\ last'.res # "raised") => CaughtUp']_vars
\* a resume changed the timer, raised and left the Store behind
C15_LeftBehind ==
  /\ pc = "running" /\ last.op = "resume" /\ last.res = "raised"
  /\ timers["a"].state = STATE_ACTIVE
  /\ stored.timers["a"].state = STATE_PAUSED

\* C17: at most one tick body executes at a time: no tick body starts while
\* another has started and not finished (suspended in a dispatch or a save),
\* and no lifecycle or group call changes the collection inside a tick body.
InBody(k) == ticks[k].pc # "idle"
C17_TicksSerialized ==
  [][/\ \A k \in TickIds :
          (~InBody(k) /\ ticks'[k].pc = "scan") =>
            \A j \in TickIds \ {k} : ~InBody(j)
     /\ ((\E k \in TickIds : InBody(k)) /\ last'.op # "none") =>
          timers' = timers]_vars
\* two tick bodies are under way at once
C17_Overlap == \A k \in TickIds : InBody(k)
\* a create has changed the collection inside a tick body
C17_Interleaved ==
  /\ last.op = "create"
  /\ \E k \in TickIds : ticks[k].pc = "scan" /\ ticks[k].start <= now
                          /\ ticks[k].held[last.name] = "stale"

\* C19: a tick that removes one or more timers performs one persist followed
\* by one notification, however many it removed; a tick that removes nothing
\* performs no persist and sends no notification.
\* the step that ends the scan of tick k: its removals and, if any, its save
EndsScan(k) == ticks[k].pc = "scan" /\ ticks'[k].pc \in {"saved", "idle"}
RemovedNow == {n \in Names : timers[n] # NoTimer /\ timers'[n] = NoTimer}
C19_TickCoalesces ==
  [][\A k \in TickIds : EndsScan(k) =>
       IF RemovedNow # {}
         THEN stored' = Saved(timers') /\ ticks'[k].pc = "saved"
         ELSE stored' = stored /\ ticks'[k].pc = "idle"]_vars
\* the same, by what the tick marked rather than by what it removed
C19_CoalescesByMarks ==
  [][\A k \in TickIds : EndsScan(k) =>
       IF ticks[k].expired \cup ticks[k].invalid # {}
         THEN stored' = Saved(timers') /\ ticks'[k].pc = "saved"
         ELSE stored' = stored /\ ticks'[k].pc = "idle"]_vars
\* a tick ends its scan with marks, none of them in the collection any more
C19_EmptySave ==
  \E k \in TickIds :
    /\ ticks[k].pc = "scan" /\ ticks[k].todo = {}
    /\ ticks[k].expired # {}
    /\ ticks[k].expired \cap Present(timers) = {}

\* C16: whenever the manager persists a collection that differs from the one
\* persisted before (after a lifecycle call, a tick that removed timers or a
\* recovery pass that purged timers), a notification follows that persist.
TickSaves == \E k \in TickIds : ticks[k].pc = "scan" /\ ticks'[k].pc = "saved"
C16_PersistThenNotify ==
  [][Snapshot' # Snapshot => (last'.notified \/ TickSaves)]_vars
\* the same for every persist but the one of the recovery pass
C16_NotifiesButRecovery ==
  [][(Snapshot' # Snapshot /\ last'.op # "recover") =>
       (last'.notified \/ TickSaves)]_vars
\* the recovery pass has persisted its purge and sent no notification
C16_SilentPurge ==
  /\ last.op = "recover" /\ last.saved /\ ~last.notified
  /\ stored.timers # snap.loaded

\* C18: async_stop cancels the tick registration and persists once: after it
\* no tick body starts, the snapshot equals the collection, and a second stop
\* does not fail and cancels nothing more.
Stopped == pc = "running" /\ ~check_task
C18_StopCancelsAndPersists ==
  [][/\ Called("stop", "") =>
          /\ Stopped'
          /\ timers' = timers
          /\ stored' = [present |-> TRUE, timers |-> timers]
          /\ last'.saved
          /\ last'.res = IF check_task THEN "cancelled" ELSE "ok"
     /\ Stopped => \A k \in TickIds : ~(~InBody(k) /\ ticks'[k].pc = "scan")
     /\ (Stopped /\ pc' = "running") => Stopped']_vars
\* a second stop, with an overdue timer that no tick is looking at
C18_Witness ==
  /\ last.op = "stop" /\ last.res = "ok" /\ Stopped
  /\ \A k \in TickIds : ~InBody(k)
  /\ \E n \in Names : /\ timers[n].state = STATE_ACTIVE
                       /\ timers[n].expiry[1] = "naive"
                       /\ timers[n].expiry[2] < now

\* C20: recovery runs at most once per start and is complete, its dispatches,
\* purges and persist included, before the first tick body starts and before
\* the manager is ready; with no snapshot recovery is skipped, the collection
\* is empty, the loop starts and the manager is ready.
NotYetRunning ==
  pc # "running" => (~ready /\ ~check_task /\ \A k \in TickIds : ~InBody(k))
StartupSteps ==
  /\ pc' = "recover" => pc \in {"new", "recover"}
  /\ (pc = "recover" /\ pc' # "recover") => pc' = "running"
  /\ (pc = "new" /\ pc' # "new") =>
       IF stored.present
         THEN pc' = "recover" /\ ~ready' /\ ~check_task'
         ELSE /\ pc' = "running" /\ timers' = EmptyTimers
              /\ ready' /\ check_task' /\ fired' = fired
  /\ (~ready /\ ready') =>
       /\ pc' = "running" /\ check_task'
       /\ scan.todo = {} /\ scan'.todo = {} /\ scan'.remove = {}
       /\ \A n \in scan.remove : timers'[n] = NoTimer
       /\ timers' = Snapshot'
C20_StartupOrdering == []NotYetRunning /\ [][StartupSteps]_vars
\* a tick body is under way after a recovery that dispatched and purged "a"
C20_Witness ==
  /\ ready /\ \E k \in TickIds : InBody(k)
  /\ snap.loaded["a"].state = STATE_ACTIVE
  /\ snap.loaded["b"] = timers["b"] /\ timers["b"] # NoTimer
  /\ timers["a"] = NoTimer

\* C21: when a tick or recovery dispatches a timer, each of its actions is
\* attempted exactly once, in list order; an action that fails, cannot be
\* resolved or names an operation without "." is skipped and the later
\* actions are still attempted; the timer is removed afterwards.
\* the trail attempts exactly the actions of the list, in order, and carries
\* out every well-formed one
AttemptsAll(trail, actions) ==
  /\ Len(trail) = Len(actions)
  /\ \A i \in 1..Len(actions) :
       /\ trail[i][1] = actions[i]
       /\ actions[i] = ACTION_EVENT => trail[i][2] = "fired"
       /\ actions[i] = ACTION_SERVICE => trail[i][2] = "called"
       /\ actions[i] \notin {ACTION_EVENT, ACTION_SERVICE} =>
            trail[i][2] \in {"skipped", "failed"}
\* the dict that tick k holds for name n
HeldBy(k, n) == IF ticks[k].held[n] = "live" THEN timers[n] ELSE ticks[k].objs[n]
C21_DispatchIsolated ==
  [][/\ \A k \in TickIds, n \in Names :
          (ticks[k].pc = "scan" /\ n \in ticks'[k].expired \ ticks[k].expired) =>
            /\ last'.name = n
            /\ AttemptsAll(last'.trail, HeldBy(k, n).actions)
     /\ \A k \in TickIds :
          EndsScan(k) => \A n \in ticks[k].expired : timers'[n] = NoTimer
     /\ \A n \in Names :
          (pc = "recover" /\ fired'[n] = fired[n] + 1) =>
            /\ last'.name = n
            /\ AttemptsAll(last'.trail, timers[n].actions)
            /\ n \in scan'.remove
     /\ (pc = "recover" /\ pc' = "running") =>
          \A n \in scan.remove : timers'[n] = NoTimer]_vars
\* a tick has just dispatched a list of four actions, three of them faulty
C21_Witness ==
  /\ Len(last.trail) = 4
  /\ last.trail[1][2] = "failed" /\ last.trail[2][2] = "skipped"
  /\ last.trail[4][2] = "fired"
  /\ \E k \in TickIds : ticks[k].pc = "scan" /\ last.name \in ticks[k].expired

\* C22: a Paused timer never fires and is never removed by the scheduler:
\* whatever ticks run and whatever time passes, a Paused timer stays in the
\* collection with its remainingDuration and undispatched unless the step is
\* a resume, a cancel or a create of its name.
LeavesPaused(n) ==
  Called("resume", n) \/ Called("cancel", n) \/ Called("create", n)
C22_PausedStays ==
  [][\A n \in Names :
       (timers[n].state = STATE_PAUSED /\ ~LeavesPaused(n)) =>
         (timers'[n] = timers[n] /\ fired'[n] = fired[n])]_vars
\* the scan of a tick marks no dict that is Paused when it looks at it
C22_ScanSkipsPaused ==
  [][\A k \in TickIds, n \in Names :
       (ticks[k].pc = "scan" /\ ticks'[k].pc = "scan"
        /\ n \in (ticks'[k].expired \cup ticks'[k].invalid)
                 \ (ticks[k].expired \cup ticks[k].invalid)) =>
         HeldBy(k, n).state = STATE_ACTIVE]_vars
\* a tick that marked "a" while it was Active is about to remove it, Paused
C22_PausedMarked ==
  \E k \in TickIds :
    /\ ticks[k].pc = "scan" /\ ticks[k].todo = {}
    /\ "a" \in ticks[k].expired
    /\ timers["a"].state = STATE_PAUSED

\* C23: a tick removes only the timer instances it found due or invalid: a
\* timer that a create put in place, or that a resume or extend gave a future
\* expiry, while the tick was suspended in a dispatch is not deleted by the
\* tick's removal step, and no timer whose expiry is in the future is removed
\* by a tick without having been dispatched.
FutureActive(r) ==
  /\ r.state = STATE_ACTIVE
  /\ r.expiry[1] \in {"naive", "alt"}
  /\ r.expiry[2] > now
C23_RemovesOnlyFound ==
  [][\A k \in TickIds : EndsScan(k) =>
       \A n \in RemovedNow :
         /\ ~FutureActive(timers[n])
         /\ fired[n] = 0 => TickOutcome(timers[n], now) = "invalid"]_vars
\* the scan marks as expired only dicts whose expiry has come
C23_MarksOnlyDue ==
  [][\A k \in TickIds, n \in Names :
       (ticks[k].pc = "scan" /\ n \in ticks'[k].expired \ ticks[k].expired) =>
         (HeldBy(k, n).state = STATE_ACTIVE /\ HeldBy(k, n).expiry[2] <= now)]_vars
\* a tick is about to remove a timer created after the tick dispatched the
\* one before it
C23_FreshMarked ==
  \E k \in TickIds :
    /\ ticks[k].pc = "scan" /\ ticks[k].todo = {}
    /\ "a" \in ticks[k].expired
    /\ FutureActive(timers["a"]) /\ fired["a"] = 0

\* C24: a timer's actions are dispatched at most once even across a stop of
\* the process and a restart: when the process stops after a tick dispatched
\* a timer and before its removal was persisted, recovery at the next start
\* does not dispatch that timer again.
RecoveryDispatches(n) == pc = "recover" /\ fired'[n] = fired[n] + 1
C24_NoRedispatch ==
  [][\A n \in Names : RecoveryDispatches(n) => fired[n] = 0]_vars
\* recovery has dispatched again the timer that a tick of the process before
\* had dispatched and not yet removed
C24_Redispatched ==
  /\ boots >= 1 /\ pc = "recover"
  /\ snap.fired_left["a"] = 1 /\ snap.left["a"] # NoTimer
  /\ fired["a"] = 2

\* C25: every expiry that a successful extend(newExpiry) parsed and stored,
\* one with a UTC offset included, is handled as that of a normal Active
\* timer: no tick marks the timer invalid and removes it without dispatch.
MarkedInvalid(k, n) ==
  ticks[k].pc = "scan" /\ n \in ticks'[k].invalid \ ticks[k].invalid
C25_AcceptedExpiryUsable ==
  [][\A k \in TickIds, n \in Names :
       fromisoformat(HeldBy(k, n).expiry).ok => ~MarkedInvalid(k, n)]_vars
\* the same for the expiries without offset that extend stores
C25_OffsetFreeUsable ==
  [][\A k \in TickIds, n \in Names :
       (fromisoformat(HeldBy(k, n).expiry).ok
        /\ ~fromisoformat(HeldBy(k, n).expiry).aware) => ~MarkedInvalid(k, n)]_vars
\* a tick has marked invalid, undispatched, the timer whose offset-aware
\* expiry extend stored
C25_AwareMarkedInvalid ==
  \E k \in TickIds :
    /\ "a" \in ticks[k].invalid
    /\ timers["a"].expiry[1] = "aware"
    /\ fired["a"] = 0

====
